---- MODULE Spec2Model ----
(***************************************************************************)
(* A state-machine model of pyhsmm's models.py: the HMM / StickyHMM / HSMM *)
(* orchestration classes.  The Model owns posterior objects and a list of  *)
(* per-sequence states objects (states_list); the Gibbs, EM and parallel   *)
(* operations act on them.  Objects live in heaps keyed by identity, so    *)
(* that aliasing between a Model and its copy_sample() is observable.      *)
(***************************************************************************)
EXTENDS Integers, Sequences, FiniteSets, TLC

\* ------------------------------------------------------------------ bounds
\* most state sequences attached to a Model at once
MaxChains == 2
\* len(obs_distns): number of hidden states of the Model
NumStates == 2

\* longest held-out sequence handed to the forecasting calls
MaxT == 3
\* most jobs one engine runs in one resample_states_parallel
MaxJobs == 2
\* largest parameter count a single observation or duration distribution
\* reports
MaxCount == 2

\* Sampled parameter values and sampled state sequences are opaque tokens:
\* the code only stores, copies and replaces them, so two distinct tokens of
\* each sort are enough to tell "unchanged" from "changed".
ParamVals == {"p0", "p1"}
SeqVals == {"s0", "s1"}
\* a resampled or re-estimated parameter value: a draw from a continuous
\* posterior differs from the value it replaces
Fresh(v) == CHOOSE w \in ParamVals : w # v

None == "None"
\* an absent object / Model / states object (Python's None in a slot)
NoObj == [cls |-> "None"]

Models == {"orig", "copy"}
Kinds == {"HMM", "StickyHMM", "HSMM"}
\* the classes deriving from HSMM, and the ones deriving from HMM only
HSMMKinds ==
    {"HSMM", "HSMMEigen", "HSMMIntNegBinVariant", "HSMMIntNegBin",
     "HSMMPossibleChangepoints"}
HMMKinds == {"HMM", "HMMEigen", "StickyHMM", "StickyHMMEigen"}
States == 1..NumStates

\* identities of posterior objects: <<allocating Model, attribute, index>>
ObjIds ==
    {<<m, f, k>> : m \in Models, f \in {"obs", "dur"}, k \in States}
    \cup {<<m, f, 0>> : m \in Models, f \in {"trans", "init", "lc"}}
\* identities of states objects: <<allocating Model, slot>>; slot MaxChains+1
\* is the transient object of log_likelihood(data)
ChainIds == {<<m, n>> : m \in Models, n \in 1..(MaxChains + 1)}

VARIABLES
    kind,       \* class of the Model under construction / constructed, or None
    mdl,        \* model name -> the Model's attribute dictionary, or None
    heap,       \* posterior object id -> the object, or None
    chain,      \* states object id -> the object, or None
    todo,       \* remaining steps of the Gibbs call in progress (<<>>: idle)
    log,        \* steps of the Gibbs call in progress already carried out
    raw,        \* what parallel.map_on_each returned to the last parallel call
    snap,       \* what the copy_sample() result held when it was taken
    last,       \* the last top-level operation and how it ended
    test,       \* the held-out sequence and horizons the forecasts are run on
    engine      \* a parallel engine: its global_model's states_list, its jobs

vars == <<kind, mdl, heap, chain, todo, log, raw, snap, last, test, engine>>

\* the held-out sequence of the forecasting calls when it is not under study
DefaultTest ==
    [T |-> 2, y |-> [t \in 1..2 |-> 1], stay |-> 1, move |-> 1, ks |-> <<1>>]

\* the jobs an engine is handed
Jobs == 1..MaxJobs
\* an engine after the push of global_model (whose states_list was emptied
\* before the push), its jobs not started
EngineStart ==
    [states_list |-> <<>>,
     job |-> [j \in Jobs |-> [pc |-> "queued", stateseq |-> "none",
                              found |-> <<>>, left |-> <<>>, ret |-> 0]]]

\* ------------------------------------------------------------ construction
\* Constructor arguments are modelled by presence (TRUE: not None).
HMMArgNames ==
    {"trans_distn", "alpha", "gamma", "alpha_a_0", "alpha_b_0", "gamma_a_0",
     "gamma_b_0", "init_state_distn", "init_state_concentration"}
StickyArgNames ==
    {"trans_distn", "kappa", "alpha", "gamma", "rho_a_0", "rho_b_0",
     "alphakappa_a_0", "alphakappa_b_0", "gamma_a_0", "gamma_b_0",
     "init_state_distn", "init_state_concentration"}

\* Python's ^ on two bools
Xor(p, q) == p # q

\* the three transition configuration modes of HMM.__init__
HMMModeA(a) == a.trans_distn
HMMModeB(a) == a.alpha /\ a.gamma
HMMModeC(a) == a.alpha_a_0 /\ a.alpha_b_0 /\ a.gamma_a_0 /\ a.gamma_b_0

\* the assert at the top of HMM.__init__
HMMInitAssert(a) == Xor(Xor(HMMModeA(a), HMMModeB(a)), HMMModeC(a))

\* which transition class HMM.__init__ instantiates
HMMTransClass(a) ==
    IF a.trans_distn THEN "given"
    ELSE IF a.alpha THEN "_trans_class"
    ELSE "_trans_class_conc_class"

\* which initial state distribution HMM.__init__ installs
HMMInitStateClass(a) ==
    IF a.init_state_distn THEN "given"
    ELSE IF a.init_state_concentration THEN "InitialState"
    ELSE "_init_steady_state_class"

\* the three modes of StickyHMM.__init__
StickyModeA(a) == a.trans_distn
StickyModeB(a) == a.kappa /\ a.alpha /\ a.gamma
StickyModeC(a) ==
    a.rho_a_0 /\ a.rho_b_0 /\ a.alphakappa_a_0 /\ a.alphakappa_b_0
    /\ a.gamma_a_0 /\ a.gamma_b_0

\* the assert at the top of StickyHMM.__init__
StickyInitAssert(a) ==
    Xor(Xor(StickyModeA(a), StickyModeB(a)), StickyModeC(a))

StickyTransClass(a) ==
    IF a.trans_distn THEN "given"
    ELSE IF a.kappa THEN "StickyHDPHMMTransitions"
    ELSE "StickyHDPHMMTransitionsConcResampling"

\* the arguments StickyHMM.__init__ hands to HMM.__init__: the transition
\* object it built, and **kwargs (its own named parameters are not in it)
StickySuperArgs(a) ==
    [n \in HMMArgNames |->
        IF n = "trans_distn" THEN TRUE
        ELSE IF n \in {"init_state_distn", "init_state_concentration"} THEN a[n]
        ELSE FALSE]

\* attribute that is not set on this class of Model
NoId == <<"none", "none", 0>>

\* a posterior object holding sampled parameters
Posterior(c, v) == [cls |-> c, val |-> v]
\* initial_state.SteadyState(model): derived from model's transition matrix,
\* computed lazily (pi: "none", or the transition value it was computed from)
SteadyState(m) == [cls |-> "SteadyState", model |-> m, pi |-> "none"]

EmptyHeap == [i \in ObjIds |-> NoObj]
EmptyChains == [c \in ChainIds |-> NoObj]

\* attributes of self after HMM.__init__(obs_distns, **a) succeeded
HMMInitDict(k, a) ==
    [cls |-> k,
     num_states |-> NumStates,
     obs_distns |-> [s \in States |-> <<"orig", "obs", s>>],
     states_list |-> <<>>,
     trans_distn |-> <<"orig", "trans", 0>>,
     init_state_distn |-> <<"orig", "init", 0>>,
     dur_distns |-> <<>>,
     left_censoring_init_state_distn |-> NoId]

\* the objects self refers to after HMM.__init__
HMMInitHeap(a, tcls) ==
    [i \in ObjIds |->
        IF i[1] # "orig" THEN NoObj
        ELSE IF i[2] = "obs" THEN Posterior("obs", "p0")
        ELSE IF i[2] = "trans" THEN Posterior(tcls, "p0")
        ELSE IF i[2] = "init" THEN
            IF HMMInitStateClass(a) = "_init_steady_state_class"
            THEN SteadyState("orig")
            ELSE Posterior(HMMInitStateClass(a), "p0")
        ELSE NoObj]

\* HSMM.__init__ after super().__init__: dur_distns, and the left-censoring
\* steady state (init_state_distn itself when that is a steady state)
HSMMInitDict(a) ==
    [HMMInitDict("HSMM", a) EXCEPT
        !.dur_distns = [s \in States |-> <<"orig", "dur", s>>],
        !.left_censoring_init_state_distn =
            IF HMMInitStateClass(a) = "_init_steady_state_class"
            THEN <<"orig", "init", 0>>
            ELSE <<"orig", "lc", 0>>]

HSMMInitHeap(a) ==
    [i \in ObjIds |->
        IF i[1] = "orig" /\ i[2] = "dur" THEN Posterior("dur", "p0")
        ELSE IF i = <<"orig", "lc", 0>>
                /\ HMMInitStateClass(a) # "_init_steady_state_class"
            THEN SteadyState("orig")
        ELSE HMMInitHeap(a, HMMTransClass(a))[i]]

NoModels == [m \in Models |-> NoObj]

Idle == todo = <<>>

\* HMM(obs_distns, **a)
ConstructHMM ==
    /\ kind = None /\ last.op = "none"
    /\ \E a \in [HMMArgNames -> BOOLEAN] :
        IF HMMInitAssert(a)
        THEN /\ kind' = "HMM"
             /\ mdl' = [NoModels EXCEPT !["orig"] = HMMInitDict("HMM", a)]
             /\ heap' = HMMInitHeap(a, HMMTransClass(a))
             /\ last' = [op |-> "HMM", args |-> a, outcome |-> "ok"]
        ELSE /\ last' = [op |-> "HMM", args |-> a, outcome |-> "AssertionError"]
             /\ UNCHANGED <<kind, mdl, heap>>
    /\ UNCHANGED <<test, engine, chain, todo, log, raw, snap>>

\* StickyHMM(obs_distns, **a)
ConstructStickyHMM ==
    /\ kind = None /\ last.op = "none"
    /\ \E a \in [StickyArgNames -> BOOLEAN] :
        IF StickyInitAssert(a) /\ HMMInitAssert(StickySuperArgs(a))
        THEN /\ kind' = "StickyHMM"
             /\ mdl' = [NoModels EXCEPT
                            !["orig"] = HMMInitDict("StickyHMM", StickySuperArgs(a))]
             /\ heap' = HMMInitHeap(StickySuperArgs(a), StickyTransClass(a))
             /\ last' = [op |-> "StickyHMM", args |-> a, outcome |-> "ok"]
        ELSE /\ last' = [op |-> "StickyHMM", args |-> a,
                         outcome |-> "AssertionError"]
             /\ UNCHANGED <<kind, mdl, heap>>
    /\ UNCHANGED <<test, engine, chain, todo, log, raw, snap>>

\* HSMM(dur_distns, obs_distns, **a)
ConstructHSMM ==
    /\ kind = None /\ last.op = "none"
    /\ \E a \in [HMMArgNames -> BOOLEAN] :
        IF HMMInitAssert(a)
        THEN /\ kind' = "HSMM"
             /\ mdl' = [NoModels EXCEPT !["orig"] = HSMMInitDict(a)]
             /\ heap' = HSMMInitHeap(a)
             /\ last' = [op |-> "HSMM", args |-> a, outcome |-> "ok"]
        ELSE /\ last' = [op |-> "HSMM", args |-> a, outcome |-> "AssertionError"]
             /\ UNCHANGED <<kind, mdl, heap>>
    /\ UNCHANGED <<test, engine, chain, todo, log, raw, snap>>

\* ------------------------------------------------------------ helpers
Range(f) == {f[i] : i \in DOMAIN f}

\* a states object (states.HMMStatesPython and its subclasses) as models.py
\* sees it: its parent model, its data, its stateseq, and its cached tables
\* (aBl, messages, expectations): "none", "valid", or "stale" once a
\* posterior they were computed from has changed
StatesObj(m, d, seq) ==
    [cls |-> "states", model |-> m, data |-> d, stateseq |-> seq,
     cache |-> "none"]

\* the data sequence a new states object is built on: each call brings its
\* own array, named here after the object built on it
DataOf(c) == c[2]

\* a lazily cached quantity after it is read: computed when absent, else
\* returned as cached
Read(c) == IF c = "none" THEN "valid" ELSE c

\* the posterior objects a Model dictionary refers to
ParamIds(d) ==
    IF d.cls = "None" THEN {}
    ELSE Range(d.obs_distns) \cup Range(d.dur_distns)
         \cup {d.trans_distn, d.init_state_distn}

\* heap after the posteriors `ids` took new values; a steady state has no
\* parameters of its own
SetVals(h, ids) ==
    [i \in ObjIds |->
        IF i \in ids /\ h[i].cls \notin {"None", "SteadyState"}
        THEN [h[i] EXCEPT !.val = Fresh(@)]
        ELSE h[i]]

\* states objects after the posteriors `ids` changed: tables computed from
\* them are stale from now on
Outdate(ch, md, ids) ==
    [c \in ChainIds |->
        IF ch[c].cls # "None" /\ ch[c].cache = "valid"
            /\ ParamIds(md[ch[c].model]) \cap ids # {}
        THEN [ch[c] EXCEPT !.cache = "stale"]
        ELSE ch[c]]

\* pi_0 of the distribution object i as a reader gets it now: a posterior's
\* own value; a steady state's cached value, or, when none is cached, the
\* one computed from the transition matrix of the Model it refers to
Pi0(h, md, i) ==
    IF h[i].cls # "SteadyState" THEN h[i].val
    ELSE IF h[i].pi # "none" THEN h[i].pi
    ELSE h[md[h[i].model].trans_distn].val

\* the initial state distribution a states object of Model dictionary d reads
\* when it runs its messages: a steady state is computed and cached on
\* first use
UseInit(h, md, d) ==
    IF h[d.init_state_distn].cls = "SteadyState"
    THEN [h EXCEPT ![d.init_state_distn].pi = Pi0(h, md, d.init_state_distn)]
    ELSE h

\* a states object built with left_censoring=True
LeftCensored(o) ==
    o.cls = "states" /\ "left_censoring" \in DOMAIN o /\ o.left_censoring

\* the initial state distributions the attached states objects of Model
\* dictionary d read when they run their messages: init_state_distn, and for
\* a left-censored sequence the Model's left_censoring_init_state_distn; a
\* steady state is computed and cached on first use
ReadInits(h, md, d, ch) ==
    LET objs == {ch[c] : c \in Range(d.states_list)}
        lc == d.left_censoring_init_state_distn
        h1 == IF \E o \in objs : ~LeftCensored(o) THEN UseInit(h, md, d) ELSE h
    IN IF lc # NoId /\ \E o \in objs : LeftCensored(o)
       THEN [h1 EXCEPT ![lc].pi = Pi0(h1, md, lc)]
       ELSE h1

\* ------------------------------------------------------------ caching
\* _clear_caches, first loop: s.clear_caches() for s in self.states_list
ClearStates(ch, sl) ==
    [c \in ChainIds |->
        IF c \in Range(sl) THEN [ch[c] EXCEPT !.cache = "none"] ELSE ch[c]]

\* _clear_caches, second part: init_state_distn.clear_caches() if it has one
ClearInit(h, d) ==
    IF h[d.init_state_distn].cls = "SteadyState"
    THEN [h EXCEPT ![d.init_state_distn].pi = "none"]
    ELSE h

\* ------------------------------------------------------------ attach
\* add_data(data): build a states object, then append it to states_list.
\* The states constructor may raise; nothing is appended then.
add_data ==
    /\ Idle /\ kind # None
    /\ Len(mdl["orig"].states_list) < MaxChains
    /\ \E seq \in SeqVals, built \in BOOLEAN :
        LET c == <<"orig", Len(mdl["orig"].states_list) + 1>> IN
        IF built
        THEN /\ chain' = [chain EXCEPT ![c] = StatesObj("orig", DataOf(c), seq)]
             /\ mdl' = [mdl EXCEPT !["orig"].states_list = Append(@, c)]
             /\ last' = [op |-> "add_data", outcome |-> "ok"]
        ELSE /\ last' = [op |-> "add_data", outcome |-> "states_error"]
             /\ UNCHANGED <<chain, mdl>>
    /\ UNCHANGED <<test, engine, kind, snap, heap, todo, log, raw>>

\* the per-sequence options of HSMM.add_data
ConfigNames == {"trunc", "right_censoring", "left_censoring"}
\* a truncation bound: None, or a number of steps
TruncVals == {"None", "trunc"}

\* a plausible slip: left censoring on unless switched off
HSMM_add_data_config_LeftCensored(supplied, tr, rc, lc) ==
    [trunc |-> IF "trunc" \in supplied THEN tr ELSE "None",
     right_censoring |-> IF "right_censoring" \in supplied THEN rc ELSE TRUE,
     left_censoring |-> IF "left_censoring" \in supplied THEN lc ELSE TRUE]
\* the options the states constructor receives from HSMM.add_data: the
\* caller's, or the defaults of the signature for those left out
HSMM_add_data_config(supplied, tr, rc, lc) ==
    [trunc |-> IF "trunc" \in supplied THEN tr ELSE "None",
     right_censoring |-> IF "right_censoring" \in supplied THEN rc ELSE TRUE,
     left_censoring |-> IF "left_censoring" \in supplied THEN lc ELSE FALSE]

\* a states object of an HSMM: it keeps the options it was built with
HSMMStatesObj(m, d, seq, cfg) ==
    [cls |-> "states", model |-> m, data |-> d, stateseq |-> seq,
     cache |-> "none", trunc |-> cfg.trunc,
     right_censoring |-> cfg.right_censoring,
     left_censoring |-> cfg.left_censoring]

\* HSMM.add_data(data, **options) with the options named in one of the
\* sets `supplieds`: build a states object, then append it.  No option is
\* required; the states constructor may raise, and nothing is appended then.
HSMM_add_data_with(supplieds) ==
    /\ Idle /\ kind \in HSMMKinds
    /\ Len(mdl["orig"].states_list) < MaxChains
    /\ \E supplied \in supplieds, seq \in SeqVals, built \in BOOLEAN :
       \E tr \in (IF "trunc" \in supplied THEN TruncVals ELSE {"None"}),
          rc \in (IF "right_censoring" \in supplied THEN BOOLEAN ELSE {TRUE}),
          lc \in (IF "left_censoring" \in supplied THEN BOOLEAN ELSE {FALSE}) :
        LET sl == mdl["orig"].states_list
            c == <<"orig", Len(sl) + 1>>
            args == [supplied |-> supplied, trunc |-> tr,
                     right_censoring |-> rc, left_censoring |-> lc]
        IN
        IF built
        THEN /\ chain' = [chain EXCEPT ![c] =
                            HSMMStatesObj("orig", DataOf(c), seq,
                                HSMM_add_data_config(supplied, tr, rc, lc))]
             /\ mdl' = [mdl EXCEPT !["orig"].states_list = Append(@, c)]
             /\ last' = [op |-> "HSMM.add_data", args |-> args,
                         outcome |-> "ok", pre |-> sl]
        ELSE /\ last' = [op |-> "HSMM.add_data", args |-> args,
                         outcome |-> "states_error", pre |-> sl]
             /\ UNCHANGED <<chain, mdl>>
    /\ UNCHANGED <<test, engine, kind, snap, heap, todo, log, raw>>

\* any subset of the options supplied
HSMM_add_data == HSMM_add_data_with(SUBSET ConfigNames)

\* left_censoring supplied, True or False, the other options left out
HSMM_add_data_censored == HSMM_add_data_with({{"left_censoring"}})

\* ------------------------------------------------------------ likelihood
\* a plausible slip: the likelihood is computed before the pop
log_likelihood_list_PopAfter(sl, c, outcome) ==
    IF outcome = "states_error" THEN sl
    ELSE IF outcome = "likelihood_error" THEN Append(sl, c)
    ELSE SubSeq(Append(sl, c), 1, Len(sl))
\* states_list after log_likelihood(data) whose states object is c:
\* add_data appends only once the states object is built, and the object
\* is popped before its log_likelihood() runs
log_likelihood_list(sl, c, outcome) ==
    IF outcome = "states_error" THEN sl
    ELSE SubSeq(Append(sl, c), 1, Len(Append(sl, c)) - 1)

\* log_likelihood(data) with data given: attach with a placeholder stateseq,
\* pop, score.  Either the states constructor or the scoring may raise.
log_likelihood_data ==
    /\ Idle /\ kind # None
    /\ Len(mdl["orig"].states_list) <= MaxChains
    /\ \E outcome \in {"states_error", "likelihood_error", "ok"} :
        LET sl == mdl["orig"].states_list
            c == <<"orig", Len(sl) + 1>>
            d == DataOf(c)
            nl == log_likelihood_list(sl, c, outcome)
            obj == [StatesObj("orig", d, "placeholder") EXCEPT
                        !.cache = IF outcome = "ok" THEN "valid" ELSE "none"]
        IN
        /\ mdl' = [mdl EXCEPT !["orig"].states_list = nl]
        \* the popped object is unreachable once the call is over
        /\ chain' = IF c \in Range(nl) THEN [chain EXCEPT ![c] = obj] ELSE chain
        /\ heap' = IF outcome = "ok" THEN UseInit(heap, mdl, mdl["orig"]) ELSE heap
        /\ last' = [op |-> "log_likelihood", given |-> TRUE,
                    outcome |-> outcome, pre |-> sl]
    /\ UNCHANGED <<test, engine, kind, snap, todo, log>>
    /\ raw' = <<>>

\* log_likelihood() on the attached data: every states object scores itself
log_likelihood_attached ==
    /\ Idle /\ kind # None
    /\ LET sl == mdl["orig"].states_list IN
        /\ chain' = [c \in ChainIds |->
                        IF c \in Range(sl)
                        THEN [chain[c] EXCEPT !.cache = Read(@)] ELSE chain[c]]
        /\ heap' = ReadInits(heap, mdl, mdl["orig"], chain)
        /\ last' = [op |-> "log_likelihood", given |-> FALSE,
                    outcome |-> "ok", pre |-> sl]
    /\ UNCHANGED <<test, engine, kind, snap, mdl, todo, log>>
    /\ raw' = <<>>

\* ------------------------------------------------------------ classes
AllKinds == HMMKinds \cup HSMMKinds

\* the model classes each class statement lists as bases, in order (the
\* abstract mixins of basic.abstractions left out)
Bases(k) ==
    CASE k = "HMM" -> <<>>
      [] k \in {"HMMEigen", "StickyHMM", "HSMM"} -> <<"HMM">>
      [] k = "StickyHMMEigen" -> <<"StickyHMM">>
      [] k \in {"HSMMEigen", "HSMMPossibleChangepoints"} -> <<"HSMM">>
      [] k = "_HSMMIntNegBinBase" -> <<"HSMM", "HMMEigen">>
      [] k \in {"HSMMIntNegBinVariant", "HSMMIntNegBin"} ->
            <<"_HSMMIntNegBinBase">>

\* a sequence without its repeats, each element kept where it occurs last
RECURSIVE KeepLast(_)
KeepLast(s) ==
    IF s = <<>> THEN <<>>
    ELSE IF \E j \in 2..Len(s) : s[j] = s[1] THEN KeepLast(Tail(s))
    ELSE <<s[1]>> \o KeepLast(Tail(s))

\* method resolution order: the class, then the orders of its bases merged
\* so that a class comes before its own bases
RECURSIVE MRO(_), MROs(_)
MROs(bs) == IF bs = <<>> THEN <<>> ELSE MRO(bs[1]) \o MROs(Tail(bs))
MRO(k) == <<k>> \o KeepLast(MROs(Bases(k)))

\* the class whose definition an attribute lookup on a class-k Model finds,
\* `definers` being the classes that define the attribute
Resolve(k, definers) ==
    LET m == MRO(k)
        i == CHOOSE j \in DOMAIN m :
                m[j] \in definers /\ \A h \in 1..(j - 1) : m[h] \notin definers
    IN m[i]

\* ------------------------------------------------------------ parameter count
RECURSIVE Sum(_)
Sum(s) == IF s = <<>> THEN 0 ELSE s[1] + Sum(Tail(s))

\* HMM.num_parameters, obs being what each o.num_parameters() returns
HMM_num_parameters(d, obs) == Sum(obs) + d.num_states * d.num_states

\* a plausible slip: the self transitions counted as in HMM
HSMM_num_parameters_SelfTransitions(d, obs, dur) ==
    Sum(obs) + Sum(dur) + d.num_states * d.num_states
\* HSMM.num_parameters
HSMM_num_parameters(d, obs, dur) ==
    Sum(obs) + Sum(dur) + d.num_states * d.num_states - d.num_states

\* reading num_parameters on a Model: the property of the first class in the
\* method resolution order that defines one is evaluated.  The value depends
\* on nothing an operation changes, so it is read on the Model as built.
num_parameters ==
    /\ Idle /\ kind # None /\ last.op = "none"
    /\ \E obs \in [DOMAIN mdl["orig"].obs_distns -> 0..MaxCount],
          dur \in [DOMAIN mdl["orig"].dur_distns -> 0..MaxCount] :
        last' = [op |-> "num_parameters", obs |-> obs, dur |-> dur,
                 outcome |-> "ok",
                 value |-> IF Resolve(kind, {"HMM", "HSMM"}) = "HSMM"
                           THEN HSMM_num_parameters(mdl["orig"], obs, dur)
                           ELSE HMM_num_parameters(mdl["orig"], obs)]
    /\ UNCHANGED <<test, engine, kind, snap, mdl, heap, chain, todo, log, raw>>

\* ------------------------------------------------------------ forecasting
\* Likelihoods are kept as exact numbers instead of their logarithms: a sum
\* of logs is a product, logaddexp.reduce is a sum, a difference of logs is a
\* quotient [num, den].  Rows are indexed from 1.
Weights == {1, 2}
\* the symbols a held-out sequence is written in
Symbols == {1, 2}

\* s.trans_matrix for the held-out sequence: weight `stay` on the diagonal,
\* `move` elsewhere
trans_matrix(tst) ==
    [i \in States |-> [j \in States |-> IF i = j THEN tst.stay ELSE tst.move]]

\* s.aBl without the log: the likelihood of observation t under each state,
\* higher under the state of the same number as the symbol y[t]
aBl(tst) ==
    [t \in 1..tst.T |-> [j \in States |-> IF tst.y[t] = j THEN 2 ELSE 1]]

RECURSIVE SumTo(_, _)
SumTo(r, n) == IF n = 0 THEN 0 ELSE r[n] + SumTo(r, n - 1)
\* logaddexp.reduce(x, axis=1) of one row, without the log
RowSum(r) == SumTo(r, NumStates)
\* max(axis=1) of one row
RowMax(r) == CHOOSE m \in Range(r) : \A x \in Range(r) : x <= m

\* row.dot(M)
VecMat(v, M) == [j \in States |-> SumTo([i \in States |-> v[i] * M[i][j]], NumStates)]
\* np.linalg.matrix_power(M, n), n >= 0
RECURSIVE matrix_power(_, _)
matrix_power(M, n) ==
    IF n = 0 THEN [i \in States |-> [j \in States |-> IF i = j THEN 1 ELSE 0]]
    ELSE [i \in States |-> VecMat(matrix_power(M, n - 1)[i], M)]

\* s.messages_forwards() without the log: alpha[t][j], the likelihood of the
\* first t observations together with state j at t, from a uniform initial
\* state distribution
RECURSIVE Alpha(_, _)
Alpha(tst, t) ==
    IF t = 1 THEN [j \in States |-> aBl(tst)[1][j]]
    ELSE LET a == VecMat(Alpha(tst, t - 1), trans_matrix(tst))
         IN [j \in States |-> a[j] * aBl(tst)[t][j]]
messages_forwards(tst) == [t \in 1..tst.T |-> Alpha(tst, t)]

\* x[:-n] of Python: the first len(x)-n rows for n > 0, no row for n = 0,
\* the first -n rows for n < 0
AllButLast(x, n) ==
    IF n > 0 THEN SubSeq(x, 1, Len(x) - n)
    ELSE IF -n < Len(x) THEN SubSeq(x, 1, -n) ELSE x
\* x[n:] of Python, n >= 0
From(x, n) == SubSeq(x, n + 1, Len(x))

\* the number of rows of a + b under numpy's broadcasting, 0 - 1 when the
\* shapes do not match
Broadcast(m, n) ==
    IF m = n THEN m ELSE IF m = 1 THEN n ELSE IF n = 1 THEN m ELSE 0 - 1
\* row t of an array of m rows within a result of more rows
Row(m, t) == IF m = 1 THEN 1 ELSE t

\* a plausible slip: the step taken from the start instead of from prev_k
Step_FromStart(k, prev_k) == k
\* step = k - prev_k
Step(k, prev_k) == k - prev_k

\* the loop of predictive_likelihoods over the horizons ks, from the loop
\* state st: cmaxes, scaled_alphal (row t being num[t] / den[t]), prev_k,
\* outs, and per horizon passed the lengths of the two trimmed arrays.  A
\* negative step asks matrix_power for an inverse, which is not followed.
RECURSIVE Horizons(_, _, _)
Horizons(tst, st, ks) ==
    IF ks = <<>> THEN [st EXCEPT !.outcome = "ok"]
    ELSE
    LET k == Head(ks)
        step == Step(k, st.prev_k)
        cmaxes == AllButLast(st.cmaxes, step)
        trimmed == AllButLast(st.scaled, step)
        seen == Append(st.trims, [k |-> k, cmaxes |-> Len(cmaxes),
                                  scaled |-> Len(trimmed)])
    IN
    IF step < 0
    THEN [st EXCEPT !.outcome = "negative_power", !.cmaxes = cmaxes,
                    !.scaled = trimmed, !.trims = seen]
    ELSE
    LET P == matrix_power(trans_matrix(tst), step)
        scaled == [t \in DOMAIN trimmed |->
                    [trimmed[t] EXCEPT !.num = VecMat(@, P)]]
        obs == From(aBl(tst), k)
        past == AllButLast(messages_forwards(tst), k)
        m == Broadcast(Len(scaled), Len(obs))
        n == IF m < 0 THEN m ELSE Broadcast(m, Len(past))
    IN
    IF n < 0
    THEN [st EXCEPT !.outcome = "ValueError", !.cmaxes = cmaxes,
                    !.scaled = scaled, !.trims = seen]
    ELSE
    LET future(t) ==
            LET a == scaled[Row(Len(scaled), t)]
                c == cmaxes[Row(Len(scaled), t)]
                b == obs[Row(Len(obs), t)]
            IN [num |-> c * SumTo([j \in States |-> a.num[j] * b[j]], NumStates),
                den |-> a.den]
        out == [t \in 1..n |->
                    [num |-> future(Row(m, t)).num,
                     den |-> future(Row(m, t)).den
                                * RowSum(past[Row(Len(past), t)])]]
    IN Horizons(tst,
                [st EXCEPT !.cmaxes = cmaxes, !.scaled = scaled, !.prev_k = k,
                           !.outs = Append(@, out), !.trims = seen],
                Tail(ks))

\* predictive_likelihoods after the states object is built: one forward
\* pass, the row maxima, the rescaled rows, then the loop
predictive_likelihoods_outs(tst) ==
    LET alphal == messages_forwards(tst) IN
    Horizons(tst,
             [cmaxes |-> [t \in 1..tst.T |-> RowMax(alphal[t])],
              scaled |-> [t \in 1..tst.T |->
                            [num |-> alphal[t], den |-> RowMax(alphal[t])]],
              prev_k |-> 0, outs |-> <<>>, trims |-> <<>>,
              outcome |-> "running"],
             tst.ks)

\* a plausible slip: the block taken from the start of the sequence
block_rows_FromStart(alphal, k) == AllButLast(alphal, k)
\* alphal[k:], the rows the numerator of a block score sums
block_rows(alphal, k) == From(alphal, k)

\* block_predictive_likelihoods after the states object is built
block_predictive_likelihoods_outs(tst) ==
    LET alphal == messages_forwards(tst) IN
    [h \in DOMAIN tst.ks |->
        LET k == tst.ks[h]
            upto == block_rows(alphal, k)
            past == AllButLast(alphal, k)
        IN [t \in 1..Len(past) |->
                [num |-> RowSum(upto[t]), den |-> RowSum(past[t])]]]

\* predictive_likelihoods(test_data, forecast_horizons): a states object is
\* built on the held-out data (the constructor may raise) without being
\* attached, and its forward pass reads the initial state distribution
predictive_likelihoods ==
    /\ Idle /\ kind # None
    /\ \E built \in BOOLEAN :
        LET r == predictive_likelihoods_outs(test) IN
        IF built
        THEN /\ heap' = UseInit(heap, mdl, mdl["orig"])
             /\ last' = [op |-> "predictive_likelihoods",
                         outcome |-> r.outcome, outs |-> r.outs,
                         trims |-> r.trims, pre |-> mdl["orig"].states_list]
        ELSE /\ heap' = heap
             /\ last' = [op |-> "predictive_likelihoods",
                         outcome |-> "states_error", outs |-> <<>>,
                         trims |-> <<>>, pre |-> mdl["orig"].states_list]
    /\ raw' = <<>>
    /\ UNCHANGED <<test, engine, kind, snap, mdl, chain, todo, log>>

\* block_predictive_likelihoods(test_data, blocklens), likewise
block_predictive_likelihoods ==
    /\ Idle /\ kind # None
    /\ \E built \in BOOLEAN :
        IF built
        THEN /\ heap' = UseInit(heap, mdl, mdl["orig"])
             /\ last' = [op |-> "block_predictive_likelihoods",
                         outcome |-> "ok",
                         outs |-> block_predictive_likelihoods_outs(test),
                         pre |-> mdl["orig"].states_list]
        ELSE /\ heap' = heap
             /\ last' = [op |-> "block_predictive_likelihoods",
                         outcome |-> "states_error", outs |-> <<>>,
                         pre |-> mdl["orig"].states_list]
    /\ raw' = <<>>
    /\ UNCHANGED <<test, engine, kind, snap, mdl, chain, todo, log>>

\* ------------------------------------------------------------ generation
\* the classes whose generate is HSMMPossibleChangepoints's override, which
\* only raises
generate_overridden(k) ==
    Resolve(k, {"HMM", "HSMM", "HSMMPossibleChangepoints"})
        = "HSMMPossibleChangepoints"

\* a plausible slip: the generated states object kept whatever keep says
generate_list_AlwaysKeep(sl, c, keep) == Append(sl, c)
\* states_list after _generate(tempstates, keep), c being tempstates
generate_list(sl, c, keep) == IF keep THEN Append(sl, c) ELSE sl

\* generate(T, keep): a states object is built from the prior (the
\* constructor may raise), observations are generated for it, and it is
\* appended when keep is true
generate ==
    /\ Idle /\ kind # None
    /\ \E keep \in BOOLEAN, seq \in SeqVals, built \in BOOLEAN :
        LET sl == mdl["orig"].states_list
            c == <<"orig", Len(sl) + 1>>
        IN
        /\ keep => Len(sl) < MaxChains
        /\ IF generate_overridden(kind)
           THEN /\ last' = [op |-> "generate", keep |-> keep,
                            outcome |-> "NotImplementedError", pre |-> sl]
                /\ UNCHANGED <<mdl, chain, heap>>
           ELSE IF ~built
           THEN /\ last' = [op |-> "generate", keep |-> keep,
                            outcome |-> "states_error", pre |-> sl]
                /\ UNCHANGED <<mdl, chain, heap>>
           ELSE /\ mdl' = [mdl EXCEPT !["orig"].states_list =
                                generate_list(sl, c, keep)]
                /\ chain' = IF c \in Range(mdl'["orig"].states_list)
                            THEN [chain EXCEPT ![c] =
                                    StatesObj("orig", DataOf(c), seq)]
                            ELSE chain
                /\ heap' = UseInit(heap, mdl, mdl["orig"])
                /\ last' = [op |-> "generate", keep |-> keep,
                            outcome |-> "ok", pre |-> sl]
    /\ raw' = <<>>
    /\ UNCHANGED <<test, engine, kind, snap, todo, log>>

\* ------------------------------------------------------------ BIC
\* the assert at the top of BIC, on whether data was passed and states_list
BIC_assert(given, sl) == ~given /\ Len(sl) > 0

\* self.num_parameters(): num_parameters is a property, so the attribute
\* read yields a number, and calling a number raises
num_parameters_called == "TypeError"

\* BIC(data): the assert; then, data being None, log_likelihood(s.data) for
\* every attached s (each a scoped attach, pop and score) and the parameter
\* count.  The branch for passed data is behind the assert.
BIC ==
    /\ Idle /\ kind # None
    /\ \E given \in BOOLEAN,
          scored \in {"states_error", "likelihood_error", "ok"} :
        LET sl == mdl["orig"].states_list
            c == <<"orig", Len(sl) + 1>>
        IN
        IF ~BIC_assert(given, sl)
        THEN /\ last' = [op |-> "BIC", given |-> given,
                         outcome |-> "AssertionError", pre |-> sl]
             /\ UNCHANGED <<mdl, heap>>
        ELSE /\ mdl' = [mdl EXCEPT !["orig"].states_list =
                            log_likelihood_list(sl, c, scored)]
             /\ heap' = IF scored = "ok" THEN UseInit(heap, mdl, mdl["orig"])
                        ELSE heap
             /\ last' = [op |-> "BIC", given |-> given,
                         outcome |-> IF scored = "ok" THEN num_parameters_called
                                     ELSE scored,
                         pre |-> sl]
    /\ raw' = <<>>
    /\ UNCHANGED <<test, engine, kind, snap, chain, todo, log>>

\* ------------------------------------------------------------ Gibbs sampling
\* resample_parameters of HMM: the three updates, in this order
HMM_resample_parameters ==
    <<"resample_obs_distns", "resample_trans_distn", "resample_init_state_distn">>

\* a plausible slip: the durations resampled after HMM's updates
HSMM_resample_parameters_DurationsLast ==
    HMM_resample_parameters \o <<"resample_dur_distns">>
\* resample_parameters of HSMM: durations first, then HMM's
HSMM_resample_parameters == <<"resample_dur_distns">> \o HMM_resample_parameters

\* a plausible slip: the states resampled at the end, as in resample_model
resample_parameters_ThenStates(k) ==
    (IF k \in HSMMKinds THEN HSMM_resample_parameters
     ELSE HMM_resample_parameters) \o <<"resample_states">>
resample_parameters(k) ==
    IF k \in HSMMKinds THEN HSMM_resample_parameters
    ELSE HMM_resample_parameters

\* a plausible slip: states resampled first
resample_model_StatesFirst(k) == <<"resample_states">> \o resample_parameters(k)
\* resample_model: parameters, then states
resample_model(k) == resample_parameters(k) \o <<"resample_states">>

\* resample_model_parallel: parameters, then states on the engines
resample_model_parallel(k) ==
    resample_parameters(k) \o <<"resample_states_parallel">>

ParamSteps ==
    {"resample_dur_distns", "resample_obs_distns", "resample_trans_distn",
     "resample_init_state_distn"}
StateSteps == {"resample_states", "resample_states_parallel"}

\* a top-level Gibbs call starts running
Call(name, prog) ==
    /\ Idle /\ kind # None
    /\ todo' = prog
    /\ log' = <<>>
    /\ raw' = <<>>
    \* hot: some attached states object holds cached tables at the call
    /\ last' = [op |-> name, outcome |-> "running",
                hot |-> \E c \in Range(mdl["orig"].states_list) :
                            chain[c].cache # "none"]
    /\ UNCHANGED <<test, engine, kind, snap, mdl, heap, chain>>

call_resample_model == Call("resample_model", resample_model(kind))
call_resample_model_parallel ==
    Call("resample_model_parallel", resample_model_parallel(kind))
call_resample_parameters ==
    Call("resample_parameters", resample_parameters(kind))

\* the running call moves past its current step (and returns after the last)
Advance ==
    /\ todo' = Tail(todo)
    /\ log' = Append(log, Head(todo))
    /\ last' = IF Tail(todo) = <<>> THEN [last EXCEPT !.outcome = "ok"] ELSE last

\* a plausible slip: the update without the _clear_caches that follows it
Update_NoClear(ids) ==
    /\ heap' = SetVals(heap, ids)
    /\ chain' = Outdate(chain, mdl, ids)
\* a parameter update: the posteriors `ids` are resampled, then _clear_caches
Update(ids) ==
    /\ heap' = ClearInit(SetVals(heap, ids), mdl["orig"])
    /\ chain' = ClearStates(Outdate(chain, mdl, ids), mdl["orig"].states_list)

resample_obs_distns ==
    /\ todo # <<>> /\ Head(todo) = "resample_obs_distns"
    /\ Update(Range(mdl["orig"].obs_distns))
    /\ Advance
    /\ UNCHANGED <<test, engine, kind, snap, mdl, raw>>

resample_trans_distn ==
    /\ todo # <<>> /\ Head(todo) = "resample_trans_distn"
    /\ Update({mdl["orig"].trans_distn})
    /\ Advance
    /\ UNCHANGED <<test, engine, kind, snap, mdl, raw>>

\* a steady state has no parameters of its own: its resample does nothing
resample_init_state_distn ==
    /\ todo # <<>> /\ Head(todo) = "resample_init_state_distn"
    /\ Update({mdl["orig"].init_state_distn})
    /\ Advance
    /\ UNCHANGED <<test, engine, kind, snap, mdl, raw>>

resample_dur_distns ==
    /\ todo # <<>> /\ Head(todo) = "resample_dur_distns"
    /\ Update(Range(mdl["orig"].dur_distns))
    /\ Advance
    /\ UNCHANGED <<test, engine, kind, snap, mdl, raw>>

\* resample_states: every states object draws a new stateseq from its
\* messages under the current parameters
resample_states ==
    /\ todo # <<>> /\ Head(todo) = "resample_states"
    /\ LET sl == mdl["orig"].states_list IN
        \E ns \in [Range(sl) -> SeqVals] :
            /\ chain' = [c \in ChainIds |->
                            IF c \in Range(sl)
                            THEN [chain[c] EXCEPT !.stateseq = ns[c],
                                                  !.cache = Read(@)]
                            ELSE chain[c]]
            /\ heap' = ReadInits(heap, mdl, mdl["orig"], chain)
    /\ Advance
    /\ UNCHANGED <<test, engine, kind, snap, mdl, raw>>

\* ------------------------------------------------------------ parallel
\* parallel.map_on_each(fn, datas): one job per data, the results in job
\* order; each result remembers the data its job was dispatched with
map_on_each(datas, results) ==
    [i \in DOMAIN datas |-> [data |-> datas[i], stateseq |-> results[i]]]

\* a plausible slip: results paired with the states objects in reverse
ZipAssign_Reversed(ch, sl, rw) ==
    [c \in ChainIds |->
        IF \E i \in DOMAIN sl : i <= Len(rw) /\ sl[i] = c
        THEN LET i == CHOOSE j \in DOMAIN sl : j <= Len(rw) /\ sl[j] = c
             IN [ch[c] EXCEPT !.stateseq = rw[Len(rw) + 1 - i].stateseq]
        ELSE ch[c]]
\* for s, stateseq in zip(states_to_resample, raw): s.stateseq = stateseq
ZipAssign(ch, sl, rw) ==
    [c \in ChainIds |->
        IF \E i \in DOMAIN sl : i <= Len(rw) /\ sl[i] = c
        THEN LET i == CHOOSE j \in DOMAIN sl : j <= Len(rw) /\ sl[j] = c
             IN [ch[c] EXCEPT !.stateseq = rw[i].stateseq]
        ELSE ch[c]]

\* self.states_list when map_on_each raises: it was emptied before the
\* dispatch and the restoring assignment is never reached
states_list_on_failure(states_to_resample) == <<>>

\* self.states_list = states_to_resample, after the pairing loop
states_list_on_return(states_to_resample) == states_to_resample

\* resample_states_parallel: empty states_list, dispatch one job per states
\* object, pair the results, restore.  A failing job makes map_on_each raise.
resample_states_parallel ==
    /\ todo # <<>> /\ Head(todo) = "resample_states_parallel"
    /\ LET states_to_resample == mdl["orig"].states_list
           datas == [i \in DOMAIN states_to_resample |->
                        chain[states_to_resample[i]].data]
       IN
       \/ \E results \in [DOMAIN states_to_resample -> SeqVals] :
            /\ raw' = map_on_each(datas, results)
            /\ chain' = ZipAssign(chain, states_to_resample, raw')
            /\ mdl' = [mdl EXCEPT !["orig"].states_list =
                            states_list_on_return(states_to_resample)]
            /\ todo' = Tail(todo)
            /\ log' = Append(log, Head(todo))
            /\ last' = [op |-> last.op, outcome |-> "ok",
                        pre |-> states_to_resample]
       \/ /\ states_to_resample # <<>>
          /\ raw' = <<>>
          /\ mdl' = [mdl EXCEPT !["orig"].states_list =
                            states_list_on_failure(states_to_resample)]
          \* states objects no list refers to any more are unreachable
          /\ chain' = [c \in ChainIds |->
                          IF c[1] = "orig" /\ c \notin Range(mdl'["orig"].states_list)
                          THEN NoObj ELSE chain[c]]
          /\ todo' = <<>>
          /\ log' = Append(log, Head(todo))
          \* seqs, after: the state sequences before the call and when the
          \* error reaches the caller (no assignment to them was reached)
          /\ last' = [op |-> last.op, outcome |-> "WorkerFailure",
                      pre |-> states_to_resample,
                      seqs |-> [i \in DOMAIN states_to_resample |->
                                    chain[states_to_resample[i]].stateseq],
                      after |-> [i \in DOMAIN states_to_resample |->
                                    chain[states_to_resample[i]].stateseq]]
    /\ UNCHANGED <<test, engine, kind, snap, heap>>

call_resample_states_parallel ==
    Call("resample_states_parallel", <<"resample_states_parallel">>)

\* ------------------------------------------------------------ engine
\* _state_sampler, first statement, of a job not yet started:
\* global_model.add_data(data=data, ...) builds a states object on the
\* job's data, which samples its stateseq, and appends it to the engine's
\* global_model.states_list.  The states constructor may raise.
state_sampler_add_data ==
    /\ \E j \in Jobs, seq \in SeqVals, built \in BOOLEAN :
        /\ engine.job[j].pc = "queued"
        /\ engine' =
            IF built
            THEN [engine EXCEPT
                    !.states_list = Append(@, j),
                    !.job[j] = [@ EXCEPT !.pc = "added", !.stateseq = seq,
                                         !.found = engine.states_list]]
            ELSE [engine EXCEPT
                    !.job[j] = [@ EXCEPT !.pc = "failed",
                                         !.found = engine.states_list,
                                         !.left = engine.states_list]]
    /\ UNCHANGED <<test, kind, mdl, heap, chain, todo, log, raw, snap, last>>

\* _state_sampler, second statement: return
\* global_model.states_list.pop().stateseq
state_sampler_pop ==
    /\ \E j \in Jobs :
        /\ engine.job[j].pc = "added"
        /\ LET sl == engine.states_list IN
            engine' =
                [engine EXCEPT
                    !.states_list = SubSeq(sl, 1, Len(sl) - 1),
                    !.job[j] = [@ EXCEPT !.pc = "done", !.ret = sl[Len(sl)],
                                         !.left = SubSeq(sl, 1, Len(sl) - 1)]]
    /\ UNCHANGED <<test, kind, mdl, heap, chain, todo, log, raw, snap, last>>

\* ------------------------------------------------------------ EM
\* a plausible slip: the precondition assert left out
HasData_NoCheck(sl) == TRUE
\* assert len(self.states_list) > 0, first statement of both EM steps
HasData(sl) == Len(sl) > 0

\* the posteriors an M step re-estimates: observation, initial state and
\* transition; HSMM's overrides add the durations after super's step
MStepIds(d) ==
    Range(d.obs_distns) \cup {d.init_state_distn, d.trans_distn}
    \cup Range(d.dur_distns)

\* the body shared by EM_step and Viterbi_EM_step once the assert passed:
\* _clear_caches, then every states object runs its E step / Viterbi decode
\* (filling its tables and setting its stateseq), then the M step
EMBody ==
    LET d == mdl["orig"]
        sl == d.states_list
        ids == MStepIds(d)
    IN \E ns \in [Range(sl) -> SeqVals] :
        LET cleared == ClearStates(chain, sl)
            decoded == [c \in ChainIds |->
                            IF c \in Range(sl)
                            THEN [cleared[c] EXCEPT !.stateseq = ns[c],
                                                    !.cache = Read(@)]
                            ELSE cleared[c]]
            h1 == ClearInit(heap, d)
            h2 == ReadInits(h1, mdl, d, chain)
        IN /\ chain' = Outdate(decoded, mdl, ids)
           /\ heap' = SetVals(h2, ids)

\* a plausible slip: the override left out, so that HMM.EM_step is inherited
EM_step_overridden_Inherited(k) == FALSE
\* the classes whose EM_step is StickyHMM's override, which only raises
EM_step_overridden(k) == k \in {"StickyHMM", "StickyHMMEigen"}

\* EM_step: StickyHMM overrides it to raise; HMM's asserts, then runs
EM_step ==
    /\ Idle /\ kind # None
    /\ IF EM_step_overridden(kind)
       THEN /\ last' = [op |-> "EM_step", outcome |-> "NotImplementedError",
                        n |-> Len(mdl["orig"].states_list)]
            /\ UNCHANGED <<heap, chain>>
       ELSE IF ~HasData(mdl["orig"].states_list)
       THEN /\ last' = [op |-> "EM_step", outcome |-> "AssertionError",
                        n |-> Len(mdl["orig"].states_list)]
            /\ UNCHANGED <<heap, chain>>
       ELSE /\ EMBody
            /\ last' = [op |-> "EM_step", outcome |-> "ok",
                        n |-> Len(mdl["orig"].states_list)]
    /\ raw' = <<>>
    /\ UNCHANGED <<test, engine, kind, snap, mdl, todo, log>>

\* Viterbi_EM_step (MAP_EM_step), the same for every class
Viterbi_EM_step ==
    /\ Idle /\ kind # None
    /\ IF ~HasData(mdl["orig"].states_list)
       THEN /\ last' = [op |-> "Viterbi_EM_step", outcome |-> "AssertionError",
                        n |-> Len(mdl["orig"].states_list)]
            /\ UNCHANGED <<heap, chain>>
       ELSE /\ EMBody
            /\ last' = [op |-> "Viterbi_EM_step", outcome |-> "ok",
                        n |-> Len(mdl["orig"].states_list)]
    /\ raw' = <<>>
    /\ UNCHANGED <<test, engine, kind, snap, mdl, todo, log>>

\* ------------------------------------------------------------ Viterbi_stateseqs
\* [s.stateseq for s in self.states_list]
stateseqs(ch, sl) == [i \in DOMAIN sl |-> ch[sl[i]].stateseq]

\* for s in self.states_list: s.Viterbi(): each states object fills its
\* tables and sets its stateseq to its decode ns[c]
Viterbi(ch, sl, ns) ==
    [c \in ChainIds |->
        IF c \in Range(sl)
        THEN [ch[c] EXCEPT !.stateseq = ns[c], !.cache = Read(@)]
        ELSE ch[c]]

\* a plausible slip: the saved sequences never put back
Viterbi_restore_Skipped(ch, sl, current_stateseqs) == ch
\* for s,seq in zip(self.states_list,current_stateseqs): s.stateseq = seq
Viterbi_restore(ch, sl, current_stateseqs) ==
    ZipAssign(ch, sl, [i \in DOMAIN current_stateseqs |->
                            [stateseq |-> current_stateseqs[i]]])

\* the property Viterbi_stateseqs: the current stateseqs are saved, every
\* states object decodes, the decodes are collected, the saved ones are put
\* back.  The decodes read the initial state distributions.
Viterbi_stateseqs ==
    /\ Idle /\ kind # None
    /\ LET d == mdl["orig"]
           sl == d.states_list
           current_stateseqs == stateseqs(chain, sl)
       IN \E ns \in [Range(sl) -> SeqVals] :
            LET decoded == Viterbi(chain, sl, ns)
                ret == stateseqs(decoded, sl)
            IN /\ chain' = Viterbi_restore(decoded, sl, current_stateseqs)
               /\ heap' = ReadInits(heap, mdl, d, chain)
               /\ last' = [op |-> "Viterbi_stateseqs", outcome |-> "ok",
                           ret |-> ret, decoded |-> ns, pre |-> sl]
    /\ raw' = <<>>
    /\ UNCHANGED <<test, engine, kind, snap, mdl, todo, log>>

\* ------------------------------------------------------------ copy_sample
\* the objects reachable from a Model dictionary through its distribution
\* attributes
DistnIds(d) ==
    IF d.cls = "None" THEN {}
    ELSE ParamIds(d) \cup ({d.left_censoring_init_state_distn} \ {NoId})

\* HMM.copy_sample: copy.copy(self), then obs_distns, trans_distn,
\* init_state_distn and states_list are replaced by copies; every other
\* attribute keeps referring to the original's object
HMM_copy_sample(d) ==
    [d EXCEPT
        !.obs_distns = [s \in DOMAIN d.obs_distns |-> <<"copy", "obs", s>>],
        !.trans_distn = <<"copy", "trans", 0>>,
        !.init_state_distn = <<"copy", "init", 0>>,
        !.states_list = [i \in DOMAIN d.states_list |-> <<"copy", i>>]]

\* HSMM.copy_sample: super's, then dur_distns replaced by copies
HSMM_copy_sample(d) ==
    [HMM_copy_sample(d) EXCEPT
        !.dur_distns = [s \in DOMAIN d.dur_distns |-> <<"copy", "dur", s>>]]

\* copy_sample() of a distribution object, called without the new Model: an
\* independent object with the same contents (a steady state keeps the
\* Model it refers to)
distn_copy_sample(o) == o

\* s.copy_sample(new) of a states object: a fresh object on the same data,
\* with a copy of the stateseq, whose parent is the new Model
states_copy_sample(o, new) == [o EXCEPT !.model = new, !.cache = "none"]

\* what a reader of the copy sees: parameter values, initial state
\* distributions, states_list and the state sequences
CopyView(h, md, ch) ==
    LET d == md["copy"] IN
    [obs |-> [s \in DOMAIN d.obs_distns |-> h[d.obs_distns[s]].val],
     dur |-> [s \in DOMAIN d.dur_distns |-> h[d.dur_distns[s]].val],
     trans |-> h[d.trans_distn].val,
     init |-> Pi0(h, md, d.init_state_distn),
     lc |-> IF d.left_censoring_init_state_distn = NoId THEN None
            ELSE Pi0(h, md, d.left_censoring_init_state_distn),
     states_list |-> d.states_list,
     stateseqs |-> [i \in DOMAIN d.states_list |-> ch[d.states_list[i]].stateseq]]

\* the same without the lazily derived initial state distributions
ParamView(v) == [v EXCEPT !.init = None, !.lc = None]

copy_sample ==
    /\ Idle /\ kind # None
    /\ LET d == mdl["orig"]
           new == IF kind \in HSMMKinds THEN HSMM_copy_sample(d)
                  ELSE HMM_copy_sample(d)
           src(i) == IF i[2] = "obs" THEN d.obs_distns[i[3]]
                     ELSE IF i[2] = "dur" THEN d.dur_distns[i[3]]
                     ELSE IF i[2] = "trans" THEN d.trans_distn
                     ELSE d.init_state_distn
       IN
       /\ mdl' = [mdl EXCEPT !["copy"] = new]
       /\ heap' = [i \in ObjIds |->
                     IF i[1] # "copy" THEN heap[i]
                     ELSE IF i \in ParamIds(new) THEN distn_copy_sample(heap[src(i)])
                     ELSE NoObj]
       /\ chain' = [c \in ChainIds |->
                     IF c[1] # "copy" THEN chain[c]
                     ELSE IF c \in Range(new.states_list)
                     THEN states_copy_sample(chain[d.states_list[c[2]]], "copy")
                     ELSE NoObj]
       /\ snap' = CopyView(heap', mdl', chain')
    /\ last' = [op |-> "copy_sample", outcome |-> "ok"]
    /\ raw' = <<>>
    /\ UNCHANGED <<test, engine, kind, todo, log>>

\* ------------------------------------------------------------ specification
\* constructor arguments of the Models the operations are run on: fixed
\* concentrations, and each way of configuring the initial state
InitArgs ==
    {a \in [HMMArgNames -> BOOLEAN] :
        /\ a.alpha /\ a.gamma /\ ~a.trans_distn
        /\ ~a.alpha_a_0 /\ ~a.alpha_b_0 /\ ~a.gamma_a_0 /\ ~a.gamma_b_0
        /\ ~a.init_state_distn}

\* a Model right after its constructor returned
Init ==
    /\ kind \in Kinds
    /\ \E a \in InitArgs :
        /\ mdl = [NoModels EXCEPT !["orig"] =
                    IF kind = "HSMM" THEN HSMMInitDict(a) ELSE HMMInitDict(kind, a)]
        /\ heap = IF kind = "HSMM" THEN HSMMInitHeap(a)
                  ELSE IF kind = "StickyHMM"
                  THEN HMMInitHeap(a, "StickyHDPHMMTransitions")
                  ELSE HMMInitHeap(a, HMMTransClass(a))
    /\ chain = EmptyChains
    /\ todo = <<>>
    /\ log = <<>>
    /\ raw = <<>>
    /\ snap = NoObj
    /\ last = [op |-> "none", outcome |-> "ok"]
    /\ test = DefaultTest
    /\ engine = EngineStart

Next ==
    \/ add_data
    \/ log_likelihood_data
    \/ log_likelihood_attached
    \/ call_resample_model
    \/ call_resample_model_parallel
    \/ call_resample_parameters
    \/ call_resample_states_parallel
    \/ resample_obs_distns
    \/ resample_trans_distn
    \/ resample_init_state_distn
    \/ resample_dur_distns
    \/ resample_states
    \/ resample_states_parallel
    \/ EM_step
    \/ Viterbi_EM_step

Spec == Init /\ [][Next]_vars

\* a Gibbs trace: snapshots taken with copy_sample between attaches, sweeps
\* and Viterbi EM steps of the original
NextCopy ==
    \/ add_data
    \/ copy_sample
    \/ call_resample_model
    \/ resample_obs_distns
    \/ resample_trans_distn
    \/ resample_init_state_distn
    \/ resample_dur_distns
    \/ resample_states
    \/ Viterbi_EM_step

SpecCopy == Init /\ [][NextCopy]_vars

\* the Model's own variables right after its constructor returned
ConstructedModel(ks) ==
    /\ kind \in ks
    /\ \E a \in InitArgs :
        /\ mdl = [NoModels EXCEPT !["orig"] =
                    IF kind \in HSMMKinds
                    THEN [HSMMInitDict(a) EXCEPT !.cls = kind]
                    ELSE HMMInitDict(kind, a)]
        /\ heap = IF kind \in HSMMKinds THEN HSMMInitHeap(a)
                  ELSE IF Resolve(kind, {"HMM", "StickyHMM"}) = "StickyHMM"
                  THEN HMMInitHeap(a, "StickyHDPHMMTransitions")
                  ELSE HMMInitHeap(a, HMMTransClass(a))
    /\ chain = EmptyChains
    /\ todo = <<>>
    /\ log = <<>>
    /\ raw = <<>>
    /\ snap = NoObj
    /\ last = [op |-> "none", outcome |-> "ok"]

\* a Model of one of the classes ks right after its constructor returned
Constructed(ks) ==
    /\ ConstructedModel(ks)
    /\ test = DefaultTest
    /\ engine = EngineStart

\* decodes read between attaches and Gibbs sweeps
NextViterbi ==
    \/ add_data
    \/ call_resample_model
    \/ resample_dur_distns
    \/ resample_obs_distns
    \/ resample_trans_distn
    \/ resample_init_state_distn
    \/ resample_states
    \/ Viterbi_stateseqs

SpecViterbi == Constructed({"HMM", "HSMM"}) /\ [][NextViterbi]_vars

\* the held-out sequences, transition matrices and horizon lists the
\* forecasts are studied on: every sequence of up to MaxT symbols, one or two
\* horizons below its length in any order
TestInputs ==
    UNION {[T : {T}, y : [1..T -> Symbols], stay : Weights, move : Weights,
            ks : {<<k>> : k \in 1..(T - 1)}
                 \cup {<<k, l>> : k \in 1..(T - 1), l \in 1..(T - 1)}]
           : T \in 2..MaxT}

\* an HMM as built, and a held-out sequence with the horizons asked for
InitForecast ==
    /\ ConstructedModel({"HMM"})
    /\ test \in TestInputs
    /\ engine = EngineStart

\* one forecasting call per held-out sequence: the scores depend on the
\* sequence and the horizons only
NextForecast ==
    /\ last.op = "none"
    /\ (predictive_likelihoods \/ block_predictive_likelihoods)

SpecForecast == InitForecast /\ [][NextForecast]_vars

\* the classes the scoring, forecasting and generation calls are run on
QueryKinds == {"HMM", "HSMM", "HSMMPossibleChangepoints"}

InitQuery == Constructed(QueryKinds)

\* attaches, and the calls that score, forecast or generate
NextQuery ==
    \/ add_data
    \/ generate
    \/ BIC
    \/ predictive_likelihoods
    \/ block_predictive_likelihoods

SpecQuery == InitQuery /\ [][NextQuery]_vars

\* an HSMM right after its constructor returned
InitHSMM == Constructed({"HSMM"})

\* attaches to an HSMM, with and without the per-sequence options
NextAttach == HSMM_add_data

SpecAttach == InitHSMM /\ [][NextAttach]_vars

\* the parameter count read on a Model of any class
InitCount == Constructed(AllKinds)

NextCount == num_parameters

SpecCount == InitCount /\ [][NextCount]_vars

\* Gibbs sweeps on an HSMM whose sequences may be left-censored
NextDerived ==
    \/ HSMM_add_data_censored
    \/ call_resample_model
    \/ resample_dur_distns
    \/ resample_obs_distns
    \/ resample_trans_distn
    \/ resample_init_state_distn
    \/ resample_states

SpecDerived == InitHSMM /\ [][NextDerived]_vars

\* the jobs of one resample_states_parallel on one engine, whose statements
\* may interleave when the engine runs its jobs concurrently
NextEngine == state_sampler_add_data \/ state_sampler_pop

SpecEngine == Constructed({"HMM"}) /\ [][NextEngine]_vars

\* before any constructor has run
InitCtor ==
    /\ kind = None
    /\ mdl = NoModels
    /\ heap = EmptyHeap
    /\ chain = EmptyChains
    /\ todo = <<>>
    /\ log = <<>>
    /\ raw = <<>>
    /\ snap = NoObj
    /\ last = [op |-> "none", outcome |-> "ok"]
    /\ test = DefaultTest
    /\ engine = EngineStart

NextCtor == ConstructHMM \/ ConstructStickyHMM \/ ConstructHSMM

\* one constructor call, from the unconstructed state
SpecCtor == InitCtor /\ [][NextCtor]_vars

\* ------------------------------------------------------------ properties
\* the original Model and its attached states objects
Self == mdl["orig"]
Attached == Range(Self.states_list)

\* exactly one of the three transition configuration modes is satisfied
ExactlyOne(p, q, r) ==
    \/ p /\ ~q /\ ~r
    \/ ~p /\ q /\ ~r
    \/ ~p /\ ~q /\ r

\* C1: construction of an HMM, StickyHMM or HSMM succeeds exactly when
\* exactly one of the three transition configuration modes is supplied;
\* with none or more than one (all three included) it fails.
C1_ExactlyOneMode ==
    /\ last.op \in {"HMM", "HSMM"} =>
        (last.outcome = "ok" <=>
            ExactlyOne(HMMModeA(last.args), HMMModeB(last.args),
                       HMMModeC(last.args)))
    /\ last.op = "StickyHMM" =>
        (last.outcome = "ok" <=>
            ExactlyOne(StickyModeA(last.args), StickyModeB(last.args),
                       StickyModeC(last.args)))

\* C2: when a job of resample_states_parallel fails, states_list holds the
\* same states objects in the same order as before the call, and no
\* stateseq has changed.
C2_FailureRestoresChains ==
    last.outcome = "WorkerFailure" =>
        /\ Self.states_list = last.pre
        /\ last.after = last.seqs

\* C3: log_likelihood(data) leaves states_list as it was before the call,
\* whether the states constructor fails, the scoring fails, or it succeeds.
C3_LogLikelihoodScoped ==
    (last.op = "log_likelihood" /\ last.given) => Self.states_list = last.pre

\* the scoring of a passed sequence failed on a Model with attached data
C3_Witness ==
    /\ last.op = "log_likelihood" /\ last.given
    /\ last.outcome = "likelihood_error"
    /\ Len(last.pre) = MaxChains

\* C4: after a successful resample_states_parallel, states_list is the list
\* it was before, and the i-th states object holds the stateseq returned by
\* the i-th job, the job dispatched with that object's data.
C4_ParallelPairing ==
    (last.op \in {"resample_states_parallel", "resample_model_parallel"}
     /\ last.outcome = "ok") =>
        /\ Self.states_list = last.pre
        /\ Len(raw) = Len(last.pre)
        /\ \A i \in DOMAIN last.pre :
            /\ chain[last.pre[i]].stateseq = raw[i].stateseq
            /\ raw[i].data = chain[last.pre[i]].data

\* two jobs returned different sequences
C4_Witness ==
    /\ last.op \in {"resample_states_parallel", "resample_model_parallel"}
    /\ last.outcome = "ok"
    /\ Len(raw) >= 2
    /\ raw[1].stateseq # raw[2].stateseq

\* the parameter updates a sweep of a Model of class k consists of
SweepUpdates(k) ==
    {"resample_obs_distns", "resample_trans_distn", "resample_init_state_distn"}
    \cup (IF k \in HSMMKinds THEN {"resample_dur_distns"} ELSE {})

\* C5: in a sweep (resample_model, resample_model_parallel) every parameter
\* update has completed before the states are resampled, and no parameter
\* is updated after them.
C5_ParametersBeforeStates ==
    last.op \in {"resample_model", "resample_model_parallel"} =>
        \A i \in DOMAIN log :
            log[i] \in StateSteps =>
                /\ \A u \in SweepUpdates(kind) : \E j \in 1..(i - 1) : log[j] = u
                /\ \A j \in (i + 1)..Len(log) : log[j] \notin ParamSteps

\* a finished HSMM sweep over attached data
C5_Witness ==
    /\ last.op = "resample_model" /\ last.outcome = "ok"
    /\ kind = "HSMM"
    /\ Len(Self.states_list) = MaxChains
    /\ log[Len(log)] = "resample_states"

\* C6: after EM_step or Viterbi_EM_step has returned, no attached states
\* object holds tables computed under the parameters the M step replaced.
C6_NoStaleTablesAfterEM ==
    (last.op \in {"EM_step", "Viterbi_EM_step"} /\ last.outcome = "ok") =>
        \A c \in Attached : chain[c].cache # "stale"

\* C7: during Gibbs parameter resampling, right after each single update
\* (durations, observations, transitions, initial state) every attached
\* states object has its caches cleared.
C7_ClearedAfterEachUpdate ==
    (/\ log # <<>>
     /\ log[Len(log)] \in ParamSteps
     /\ \/ todo # <<>>
        \/ last.op = "resample_parameters" /\ last.outcome = "ok") =>
        \A c \in Attached : chain[c].cache = "none"

\* the first update of a sweep that started on states objects holding tables
C7_Witness ==
    /\ Len(log) = 1 /\ log[1] \in ParamSteps
    /\ todo # <<>>
    /\ last.hot
    /\ Len(Self.states_list) = MaxChains

\* C8: whatever is done to the original after copy_sample, the copy shows
\* the parameter values, states_list and state sequences it was taken with.
C8_CopyUnchanged ==
    mdl["copy"].cls # "None" => CopyView(heap, mdl, chain) = snap

\* the part of C8 the code does keep: the copied posteriors' own values,
\* the copy's states_list and its state sequences stay as taken
C8_CopiedParametersUnchanged ==
    mdl["copy"].cls # "None" =>
        ParamView(CopyView(heap, mdl, chain)) = ParamView(snap)

\* C9: the copy shares no distribution object with the original, none of
\* its distribution objects refers back to the original, and each of its
\* states objects has the copy as parent.
C9_CopyNotAliased ==
    mdl["copy"].cls # "None" =>
        /\ \A c \in Range(mdl["copy"].states_list) : chain[c].model = "copy"
        /\ DistnIds(mdl["copy"]) \cap DistnIds(Self) = {}
        /\ \A i \in DistnIds(mdl["copy"]) :
            heap[i].cls = "SteadyState" => heap[i].model # "orig"

\* the EM steps that run HMM.EM_step / HMM.Viterbi_EM_step
RunsHMMStep(op) ==
    \/ op = "Viterbi_EM_step"
    \/ op = "EM_step" /\ kind # "StickyHMM"

\* C10: EM_step and Viterbi_EM_step on a Model without attached data fail
\* on the assert, before anything is done: no posterior changes and no
\* cache is cleared; with data attached the assert passes.
C10_EMNeedsData ==
    [][RunsHMMStep(last'.op) =>
        /\ Len(Self.states_list) = 0 =>
            /\ last'.outcome = "AssertionError"
            /\ UNCHANGED <<mdl, heap, chain>>
        /\ Len(Self.states_list) > 0 => last'.outcome = "ok"]_vars

\* an EM step refused on an empty Model whose steady state is still cached
C10_Witness ==
    /\ last.op = "EM_step" /\ last.outcome = "AssertionError"
    /\ Self.states_list = <<>>
    /\ heap[Self.init_state_distn].cls = "SteadyState"
    /\ heap[Self.init_state_distn].pi # "none"

\* C11: EM_step on a StickyHMM fails with NotImplementedError whatever the
\* number of attached states objects, and changes no posterior, no states
\* object, no cache and not states_list; Viterbi_EM_step on the same Model
\* runs whenever data is attached.
C11_StickyEMUnsupported ==
    [][kind = "StickyHMM" =>
        /\ last'.op = "EM_step" =>
            /\ last'.outcome = "NotImplementedError"
            /\ UNCHANGED <<mdl, heap, chain>>
        /\ (last'.op = "Viterbi_EM_step" /\ Len(Self.states_list) > 0) =>
            last'.outcome = "ok"]_vars

\* soft EM refused on a StickyHMM whose attached states objects hold tables
C11_Witness ==
    /\ kind = "StickyHMM"
    /\ last.op = "EM_step" /\ last.outcome = "NotImplementedError"
    /\ Len(Self.states_list) = MaxChains
    /\ \E c \in Attached : chain[c].cache = "valid"

\* C12: BIC fails on its assert exactly when there is nothing to score (no
\* data passed and states_list empty); with data passed it does not fail on
\* the assert; with no data passed and a non-empty states_list it returns a
\* score unless a collaborator raised, and states_list is as before.
C12_BICPrecondition ==
    last.op = "BIC" =>
        /\ last.outcome = "AssertionError" <=>
                (~last.given /\ Len(last.pre) = 0)
        /\ (~last.given /\ Len(last.pre) > 0) =>
            /\ last.outcome \in {"ok", "states_error", "likelihood_error"}
            /\ Self.states_list = last.pre

\* C13 as claimed: HSMM.add_data without all three of trunc,
\* right_censoring and left_censoring is rejected with a configuration
\* error, and states_list is left as it was.
C13_MissingConfigRejected ==
    (last.op = "HSMM.add_data" /\ last.args.supplied # ConfigNames) =>
        /\ last.outcome = "ConfigurationError"
        /\ Self.states_list = last.pre

\* C13 as amended: HSMM.add_data never rejects a call for options left out.
\* Unless the states constructor raises, exactly one states object is
\* appended, holding the supplied options and for each one left out its
\* default: trunc None, right_censoring True, left_censoring False.  When
\* the constructor raises, states_list is left as it was.
C13_MissingConfigDefaulted ==
    last.op = "HSMM.add_data" =>
        /\ last.outcome \in {"ok", "states_error"}
        /\ last.outcome = "states_error" => Self.states_list = last.pre
        /\ last.outcome = "ok" =>
            /\ Self.states_list = Append(last.pre, <<"orig", Len(last.pre) + 1>>)
            /\ LET o == chain[Self.states_list[Len(Self.states_list)]]
                   a == last.args
               IN /\ o.trunc = IF "trunc" \in a.supplied THEN a.trunc ELSE "None"
                  /\ o.right_censoring =
                        IF "right_censoring" \in a.supplied
                        THEN a.right_censoring ELSE TRUE
                  /\ o.left_censoring =
                        IF "left_censoring" \in a.supplied
                        THEN a.left_censoring ELSE FALSE

\* a sequence attached to an HSMM with none of the options supplied
C13_Witness ==
    /\ last.op = "HSMM.add_data" /\ last.outcome = "ok"
    /\ last.args.supplied = {}
    /\ Len(Self.states_list) = Len(last.pre) + 1

\* C14: num_parameters is the sum of the observation distributions'
\* parameter counts plus the transition count, num_states squared for the
\* classes deriving from HMM only and num_states squared minus num_states
\* for HSMM and every class deriving from it (the negative binomial and
\* changepoints ones included), plus, for these, the sum of the duration
\* distributions' parameter counts.
C14_NumParameters ==
    last.op = "num_parameters" =>
        last.value =
            Sum(last.obs)
            + (IF kind \in HSMMKinds
               THEN NumStates * NumStates - NumStates + Sum(last.dur)
               ELSE NumStates * NumStates)

\* the count of a negative binomial HSMM whose distributions report
\* different, non-zero counts
C14_Witness ==
    /\ kind = "HSMMIntNegBin"
    /\ last.op = "num_parameters"
    /\ last.obs[1] # last.obs[NumStates]
    /\ Sum(last.dur) = MaxCount * NumStates

\* two quotients are the same number
RatEq(a, b) == a.num * b.den = b.num * a.den
\* two arrays of scores have the same length and the same entries
SameScores(u, v) ==
    /\ Len(u) = Len(v)
    /\ \A t \in DOMAIN u : RatEq(u[t], v[t])

\* C15 as claimed: for every held-out sequence and every horizon k with
\* 0 < k < T, predictive_likelihoods with the single horizon k returns the
\* values block_predictive_likelihoods returns for the block length k.
C15_SingleHorizonEqualsBlock ==
    (/\ last.op = "predictive_likelihoods" /\ last.outcome = "ok"
     /\ Len(test.ks) = 1) =>
        SameScores(last.outs[1], block_predictive_likelihoods_outs(test)[1])

\* C15 as amended: on an HMM the two agree for the horizon k = 1, where the
\* one-step forecast of the next observation is the one-observation block.
C15_OneStepEqualsBlock ==
    (/\ last.op = "predictive_likelihoods" /\ last.outcome = "ok"
     /\ test.ks = <<1>>) =>
        SameScores(last.outs[1], block_predictive_likelihoods_outs(test)[1])

\* a one-step forecast over a longest sequence that changes symbol, under a
\* transition matrix that tells staying from moving
C15_Witness ==
    /\ last.op = "predictive_likelihoods" /\ last.outcome = "ok"
    /\ test.ks = <<1>>
    /\ test.T = MaxT
    /\ test.y[1] # test.y[MaxT]
    /\ test.stay # test.move
    /\ Len(last.outs[1]) = MaxT - 1

\* the horizons are strictly ascending
Ascending(ks) == \A h \in 2..Len(ks) : ks[h - 1] < ks[h]

\* the forward mass at time t advanced by k transition steps and combined
\* with the observation likelihood at time t + k, over the forward mass at t
Direct(tst, k, t) ==
    LET a == VecMat(messages_forwards(tst)[t], matrix_power(trans_matrix(tst), k))
    IN [num |-> SumTo([j \in States |-> a[j] * aBl(tst)[t + k][j]], NumStates),
        den |-> RowSum(messages_forwards(tst)[t])]

\* C18: with strictly ascending horizons below T, when the output for a
\* horizon k is produced the two trimmed arrays hold the first T - k rows,
\* the output has T - k entries, and entry t is the forward mass at t
\* advanced by k steps in total, combined with the observation likelihood at
\* t + k.  With a repeated or descending horizon some horizon is reached
\* with the arrays not trimmed to T - k rows.
C18_AscendingHorizons ==
    (last.op = "predictive_likelihoods" /\ last.outcome # "states_error") =>
        /\ Ascending(test.ks) =>
            /\ last.outcome = "ok"
            /\ \A h \in DOMAIN test.ks :
                LET k == test.ks[h] IN
                /\ last.trims[h].cmaxes = test.T - k
                /\ last.trims[h].scaled = test.T - k
                /\ Len(last.outs[h]) = test.T - k
                /\ \A t \in 1..(test.T - k) :
                    RatEq(last.outs[h][t], Direct(test, k, t))
        /\ ~Ascending(test.ks) =>
            \E h \in DOMAIN last.trims :
                last.trims[h].cmaxes # test.T - last.trims[h].k

\* two ascending horizons over a longest sequence
C18_Witness ==
    /\ last.op = "predictive_likelihoods" /\ last.outcome = "ok"
    /\ Len(test.ks) = 2 /\ test.ks[1] < test.ks[2]
    /\ test.T = MaxT
    /\ test.stay # test.move
    /\ Len(last.outs) = 2

\* C16: with the jobs of one engine running concurrently on its
\* global_model, every job that returns has returned the stateseq of the
\* states object it built itself, and has left global_model.states_list as
\* it found it.
C16_JobsIsolated ==
    \A j \in Jobs :
        engine.job[j].pc = "done" =>
            /\ engine.job[j].ret = j
            /\ engine.job[j].left = engine.job[j].found

\* the steady states a Model dictionary refers to
DerivedIds(d) ==
    {i \in {d.init_state_distn, d.left_censoring_init_state_distn} \ {NoId} :
        heap[i].cls = "SteadyState"}

\* C17: right after resample_trans_distn, and after EM_step or
\* Viterbi_EM_step has returned, no steady state of the Model (its
\* init_state_distn when derived, an HSMM's separate
\* left_censoring_init_state_distn) holds a distribution computed from the
\* transition matrix that was replaced.
C17_DerivedInvalidated ==
    (\/ /\ todo # <<>> /\ log # <<>>
        /\ log[Len(log)] = "resample_trans_distn"
     \/ /\ last.op \in {"EM_step", "Viterbi_EM_step"}
        /\ last.outcome = "ok") =>
        \A i \in DerivedIds(Self) :
            heap[i].pi \in {"none", heap[Self.trans_distn].val}

\* C19: resample_parameters never changes states_list (membership, order,
\* length) nor the stateseq of an attached states object, at its start and
\* at each of its updates; on a Model with an empty states_list the list
\* therefore stays empty.
C19_ParametersKeepChains ==
    [][last'.op = "resample_parameters" =>
        /\ mdl'["orig"].states_list = Self.states_list
        /\ \A c \in Attached : chain'[c].stateseq = chain[c].stateseq]_vars

\* resample_parameters has returned on an HSMM with attached data whose
\* states objects held tables when it started
C19_Witness ==
    /\ last.op = "resample_parameters" /\ last.outcome = "ok"
    /\ kind = "HSMM"
    /\ last.hot
    /\ Len(Self.states_list) = MaxChains
    /\ Len(log) = Len(HSMM_resample_parameters)

\* C20: predictive_likelihoods, block_predictive_likelihoods and
\* generate(keep=False) leave states_list and the attached states objects
\* as they were; generate(keep=True), when it succeeds, appends exactly
\* one states object at the end and changes no entry that was there; on
\* HSMMPossibleChangepoints generate raises NotImplementedError and leaves
\* states_list as it was.
C20_TemporariesKeepChains ==
    [][/\ last'.op \in {"predictive_likelihoods", "block_predictive_likelihoods"}
            => UNCHANGED <<mdl, chain>>
       /\ (last'.op = "generate" /\ ~last'.keep) => UNCHANGED <<mdl, chain>>
       /\ (last'.op = "generate" /\ last'.keep /\ last'.outcome = "ok") =>
            /\ Len(mdl'["orig"].states_list) = Len(Self.states_list) + 1
            /\ SubSeq(mdl'["orig"].states_list, 1, Len(Self.states_list))
                    = Self.states_list
            /\ \A c \in Attached : chain'[c] = chain[c]
       /\ (last'.op = "generate" /\ kind = "HSMMPossibleChangepoints") =>
            /\ last'.outcome = "NotImplementedError"
            /\ UNCHANGED <<mdl, chain>>]_vars

\* a generated sequence kept on a Model that already had data attached
C20_Witness ==
    /\ last.op = "generate" /\ last.keep /\ last.outcome = "ok"
    /\ Len(last.pre) = MaxChains - 1
    /\ Len(Self.states_list) = MaxChains

\* the parameter updates among the steps a call has run, in the order run
UpdatesRun == SelectSeq(log, LAMBDA x : x \in ParamSteps)
\* u is the beginning of v
IsPrefix(u, v) == Len(u) <= Len(v) /\ u = SubSeq(v, 1, Len(u))

\* C21: in an HSMM Gibbs parameter resampling (on its own or inside a sweep)
\* the updates run so far are the beginning of: durations, observations,
\* transitions, initial state; and when the call has returned every one of
\* the four has run exactly once, in that order.
C21_DurationsFirst ==
    (/\ kind \in HSMMKinds
     /\ last.op \in {"resample_parameters", "resample_model",
                     "resample_model_parallel"}) =>
        /\ IsPrefix(UpdatesRun,
                    <<"resample_dur_distns", "resample_obs_distns",
                      "resample_trans_distn", "resample_init_state_distn">>)
        /\ last.outcome = "ok" =>
                /\ Len(UpdatesRun) = 4
                /\ \A u \in ParamSteps :
                        Cardinality({i \in DOMAIN log : log[i] = u}) = 1

\* a finished HSMM sweep over attached data: four updates, then the states
C21_Witness ==
    /\ kind = "HSMM"
    /\ last.op = "resample_model" /\ last.outcome = "ok"
    /\ Len(Self.states_list) > 0
    /\ Len(log) = 5 /\ log[1] = "resample_dur_distns"

\* C22: reading Viterbi_stateseqs returns one decoded sequence per attached
\* states object, in the order of states_list; after it returned every
\* attached states object holds the stateseq it held before the read, and
\* states_list is as it was.
C22_ViterbiReadOnly ==
    [][last'.op = "Viterbi_stateseqs" =>
        /\ last'.outcome = "ok"
        /\ Len(last'.ret) = Len(Self.states_list)
        /\ \A i \in DOMAIN Self.states_list :
                last'.ret[i] = last'.decoded[Self.states_list[i]]
        /\ \A c \in Attached : chain'[c].stateseq = chain[c].stateseq
        /\ mdl'["orig"].states_list = Self.states_list]_vars

\* a read on a Model with every slot attached, where the sequences differ
\* between the states objects and one decode differs from the sequence held
C22_Witness ==
    /\ last.op = "Viterbi_stateseqs" /\ last.outcome = "ok"
    /\ Len(Self.states_list) = MaxChains
    /\ \E c, e \in Attached : chain[c].stateseq # chain[e].stateseq
    /\ \E c \in Attached : last.decoded[c] # chain[c].stateseq
    /\ \E c \in Attached : last.decoded[c] = chain[c].stateseq

====
